---- MODULE Spec2Model ----
(***************************************************************************)
(* Audiobook-Conversion-Kit: the two text chunkers (audiobook.py,          *)
(* cleanup.py), the two pipeline drivers, the podcast feed builder         *)
(* (podcast_feed.py) and the HTTP handler (server.py).                     *)
(*                                                                         *)
(* A Python str is a sequence of one-character strings.  File names and    *)
(* request paths are sequences of atomic pieces ("/", "audio", ".mp3"...). *)
(***************************************************************************)
EXTENDS Integers, Sequences, FiniteSets, TLC

VARIABLES
    pc,             \* position of the running script
    text,           \* chunkers: the input text
    max_size,       \* chunkers: max_length / max_chunk_size
    min_size,       \* split_into_chunks: min_chunk_size
    chunks,         \* chunkers: the returned list
    driver,         \* pipeline: the driver that runs
    total_chunks,   \* pipeline: len(chunks)
    idx,            \* pipeline: the loop's i, the number of the next chunk
    calls,          \* pipeline: external calls made so far, per chunk
    results,        \* pipeline: how the external call of each chunk ended
    audio_files,    \* process_file: the paths collected
    cleaned_chunks, \* process_text_file: the texts collected
    disk,           \* pipeline: the files the drivers touch
    logged,         \* pipeline: the errors logged
    ret,            \* pipeline: how the driver ended
    dir,            \* feed: the files of audiobooks_dir, name -> stat
    clock,          \* feed: the time now, in ticks
    feed,           \* feed: the document in podcast.xml
    prev_feed,      \* feed: the document the build before wrote
    srv_fs,         \* server: the files and directories that exist
    request,        \* server: self.path of the request handled
    connected,      \* server: whether the client still reads
    response,       \* server: what the handler sent
    process_file_def, \* entry block: the line of the def process_file is bound to
    cuda_available, \* entry block: torch.cuda.is_available()
    input_file,     \* entry block: the path the user gave
    voice,          \* entry block: the voice chosen
    use_gpu,        \* entry block: what choose_device returned
    console,        \* entry block: the last message printed or logged
    device          \* entry block: where process_file put the model

chunkerVars == <<text, max_size, min_size, chunks>>
pipelineVars == <<driver, total_chunks, idx, calls, results, audio_files,
                  cleaned_chunks, disk, logged, ret>>
feedVars == <<dir, clock, feed, prev_feed>>
serverVars == <<srv_fs, request, connected, response>>
mainVars == <<process_file_def, cuda_available, input_file, voice, use_gpu,
              console, device>>
vars == <<pc, chunkerVars, pipelineVars, feedVars, serverVars, mainVars>>

-----------------------------------------------------------------------------
(* Bounds of the model. *)

\* longest input text of split_text, in characters
MaxTextLen == 5
\* largest max_length tried for split_text
MaxLength == 4
\* longest input text of split_into_chunks, in pieces of CleanupPieces
MaxPieces == 5
\* largest max_chunk_size tried for split_into_chunks
MaxChunkSize == 4
\* most chunks a pipeline run works through
MaxChunks == 3
\* most files in the feed's directory
MaxFiles == 3
\* latest modification time of a file, in ticks
MaxMtime == 2
\* latest time of a feed build, in ticks
MaxClock == 2
\* ticks in a second: file times are finer than the dates the feed prints
TicksPerSecond == 2
\* longest request path, in pieces of PathPieces
MaxPathLen == 5

-----------------------------------------------------------------------------
(* Python's str and list operations, as the chunkers use them. *)

\* all sequences over S of length <= n
SeqsUpTo(S, n) == UNION {[1..k -> S] : k \in 0..n}

\* ''.join(parts)
RECURSIVE Concat(_)
Concat(parts) ==
    IF parts = <<>> THEN <<>> ELSE Head(parts) \o Concat(Tail(parts))

\* sep.join(parts)
RECURSIVE Join(_, _)
Join(sep, parts) ==
    IF parts = <<>> THEN <<>>
    ELSE IF Len(parts) = 1 THEN parts[1]
    ELSE parts[1] \o sep \o Join(sep, Tail(parts))

\* s.find(sep) + 1: the first place sep occurs in s, 0 when it does not
Find(s, sep) ==
    LET hits == {i \in 1..(Len(s) - Len(sep) + 1) :
                    SubSeq(s, i, i + Len(sep) - 1) = sep}
    IN  IF hits = {} THEN 0 ELSE CHOOSE i \in hits : \A j \in hits : i <= j

\* s.split(sep), sep not empty: left to right, occurrences do not overlap
RECURSIVE Split(_, _)
Split(s, sep) ==
    LET i == Find(s, sep)
    IN  IF i = 0 THEN <<s>>
        ELSE <<SubSeq(s, 1, i - 1)>> \o Split(SubSeq(s, i + Len(sep), Len(s)), sep)

\* s.replace(old, new): every occurrence, left to right
Replace(s, old, new) == Join(new, Split(s, old))

\* s.startswith(prefix)
StartsWith(s, prefix) ==
    Len(s) >= Len(prefix) /\ SubSeq(s, 1, Len(prefix)) = prefix

\* s.endswith(suffix)
EndsWith(s, suffix) ==
    Len(s) >= Len(suffix) /\ SubSeq(s, Len(s) - Len(suffix) + 1, Len(s)) = suffix

-----------------------------------------------------------------------------
(* audiobook.py: split_text *)

\* the characters split_text is tried on
TextAlphabet == {"A", "B", ".", " ", "\n"}

\* a faulty variant: the period is added back to the last sentence too
AddPeriodToAll(sentence, sentences) == sentence \o <<".", " ">>

\* "Add period back if it was removed (except for last sentence)": the test
\* compares the sentence's text with the last sentence's text
AddPeriod(sentence, sentences) ==
    IF sentence # sentences[Len(sentences)] THEN sentence \o <<".", " ">>
    ELSE sentence

\* one pass of the for loop over sentences; st is the loop's state
SplitTextStep(st, sentence, max_length) ==
    LET flush == st.current_length + Len(sentence) > max_length
                    /\ st.current_chunk # <<>>
        flushed == IF flush
                   THEN [chunks |-> Append(st.chunks, Concat(st.current_chunk)),
                         current_chunk |-> <<>>,
                         current_length |-> 0]
                   ELSE st
    IN  [chunks |-> flushed.chunks,
         current_chunk |-> Append(flushed.current_chunk, sentence),
         current_length |-> flushed.current_length + Len(sentence)]

RECURSIVE SplitTextLoop(_, _, _, _)
SplitTextLoop(sentences, i, st, max_length) ==
    IF i > Len(sentences) THEN st
    ELSE SplitTextLoop(sentences, i + 1,
            SplitTextStep(st, AddPeriod(sentences[i], sentences), max_length),
            max_length)

\* split_text(text, max_length)
split_text(t, max_length) ==
    LET sentences == Split(Replace(t, <<"\n">>, <<" ">>), <<".", " ">>)
        st == SplitTextLoop(sentences, 1,
                [chunks |-> <<>>, current_chunk |-> <<>>, current_length |-> 0],
                max_length)
    IN  IF st.current_chunk # <<>>
        THEN Append(st.chunks, Concat(st.current_chunk))
        ELSE st.chunks

-----------------------------------------------------------------------------
(* cleanup.py: split_into_chunks *)

\* the pieces the input texts of split_into_chunks are built from
CleanupPieces ==
    {<<"A">>, <<"B">>, <<".">>, <<" ">>, <<"\n", "\n">>,
     <<"A", "A", "A", "A", ".">>}

\* any(word.endswith(sep) for sep in ['.', '!', '?', ';'])
EndsWithSeparator(word) ==
    \E sep \in {".", "!", "?", ";"} : EndsWith(word, <<sep>>)

\* the for loop over words: a sentence ends at a word that ends with a
\* separator once the sentence is longer than min_chunk_size
RECURSIVE SentencesLoop(_, _, _, _, _)
SentencesLoop(words, i, sentences, current_sentence, min_chunk_size) ==
    IF i > Len(words)
    THEN IF current_sentence # <<>>
         THEN Append(sentences, Join(<<" ">>, current_sentence))
         ELSE sentences
    ELSE LET cs == Append(current_sentence, words[i])
             sentence_text == Join(<<" ">>, cs)
         IN  IF EndsWithSeparator(words[i]) /\ Len(sentence_text) > min_chunk_size
             THEN SentencesLoop(words, i + 1, Append(sentences, sentence_text),
                                <<>>, min_chunk_size)
             ELSE SentencesLoop(words, i + 1, sentences, cs, min_chunk_size)

\* the for loop over sentences: ts is [chunks, temp_chunk, temp_size]
RECURSIVE CombineLoop(_, _, _, _)
CombineLoop(sentences, i, ts, max_chunk_size) ==
    IF i > Len(sentences) THEN ts
    ELSE LET sentence == sentences[i]
         IN  IF ts.temp_size + Len(sentence) + 1 <= max_chunk_size
             THEN CombineLoop(sentences, i + 1,
                    [ts EXCEPT !.temp_chunk = Append(@, sentence),
                               !.temp_size = @ + Len(sentence) + 1],
                    max_chunk_size)
             ELSE CombineLoop(sentences, i + 1,
                    [chunks |-> IF ts.temp_chunk # <<>>
                                THEN Append(ts.chunks, Join(<<" ">>, ts.temp_chunk))
                                ELSE ts.chunks,
                     temp_chunk |-> <<sentence>>,
                     temp_size |-> Len(sentence)],
                    max_chunk_size)

\* the branch for a paragraph longer than max_chunk_size
SplitLongParagraph(st, paragraph, max_chunk_size, min_chunk_size) ==
    LET words == Split(paragraph, <<" ">>)
        sentences == SentencesLoop(words, 1, <<>>, <<>>, min_chunk_size)
        ts == CombineLoop(sentences, 1,
                [chunks |-> st.chunks, temp_chunk |-> <<>>, temp_size |-> 0],
                max_chunk_size)
    IN  IF ts.temp_chunk # <<>>
        THEN [chunks |-> ts.chunks,
              current_chunk |-> Append(st.current_chunk, Join(<<" ">>, ts.temp_chunk)),
              current_size |-> ts.temp_size]
        ELSE [st EXCEPT !.chunks = ts.chunks]

\* current_chunk.append(paragraph); current_size += len(paragraph) + 2
AppendParagraph(st, paragraph) ==
    [st EXCEPT !.current_chunk = Append(@, paragraph),
               !.current_size = @ + Len(paragraph) + 2]

\* one pass of the for loop over paragraphs
ParagraphStep(st, paragraph, max_chunk_size, min_chunk_size) ==
    IF st.current_size + Len(paragraph) + 2 > max_chunk_size
    THEN LET flushed ==
                IF st.current_size >= min_chunk_size
                THEN [chunks |-> Append(st.chunks, Join(<<"\n", "\n">>, st.current_chunk)),
                      current_chunk |-> <<>>,
                      current_size |-> 0]
                ELSE st
         IN  IF Len(paragraph) > max_chunk_size
             THEN SplitLongParagraph(flushed, paragraph, max_chunk_size, min_chunk_size)
             ELSE AppendParagraph(flushed, paragraph)
    ELSE AppendParagraph(st, paragraph)

RECURSIVE ParagraphLoop(_, _, _, _, _)
ParagraphLoop(paragraphs, i, st, max_chunk_size, min_chunk_size) ==
    IF i > Len(paragraphs) THEN st
    ELSE ParagraphLoop(paragraphs, i + 1,
            ParagraphStep(st, paragraphs[i], max_chunk_size, min_chunk_size),
            max_chunk_size, min_chunk_size)

\* split_into_chunks(text, max_chunk_size, min_chunk_size)
split_into_chunks(t, max_chunk_size, min_chunk_size) ==
    LET paragraphs == Split(t, <<"\n", "\n">>)
        st == ParagraphLoop(paragraphs, 1,
                [chunks |-> <<>>, current_chunk |-> <<>>, current_size |-> 0],
                max_chunk_size, min_chunk_size)
    IN  IF st.current_chunk # <<>>
        THEN Append(st.chunks, Join(<<"\n", "\n">>, st.current_chunk))
        ELSE st.chunks

\* a component that does not run
ChunkerIdle == text = <<>> /\ max_size = 0 /\ min_size = 0 /\ chunks = <<>>
PipelineIdle ==
    /\ driver = "none" /\ total_chunks = 0 /\ idx = 0 /\ calls = <<>>
    /\ results = <<>> /\ audio_files = <<>> /\ cleaned_chunks = <<>>
    /\ disk = <<>> /\ logged = {} /\ ret = "none"
FeedIdle == dir = <<>> /\ clock = 0 /\ feed = <<>> /\ prev_feed = <<>>
ServerIdle == srv_fs = {} /\ request = <<>> /\ connected = FALSE /\ response = <<>>
MainIdle ==
    /\ process_file_def = 0 /\ cuda_available = FALSE /\ input_file = ""
    /\ voice = "" /\ use_gpu = FALSE /\ console = "" /\ device = ""

-----------------------------------------------------------------------------
(* The pipeline drivers: process_file (audiobook.py, the definition at     *)
(* line 143, which replaces the one at line 32) and process_text_file      *)
(* (cleanup.py).  A chunk is known by its number 1..total_chunks: both     *)
(* chunkers return at least one chunk.                                     *)

\* the files a run touches
TempDir == <<"_tts_temp", 0>>
ChunkPath(n) == <<"chunk_.wav", n>>
OutputWav == <<"_audiobook.wav", 0>>
OutputTxt == <<"output_file", 0>>
PartialTxt == <<"output_file.partial", 0>>
PipelinePaths ==
    {TempDir, OutputWav, OutputTxt, PartialTxt} \cup {ChunkPath(n) : n \in 1..MaxChunks}

NoFile == [kind |-> "none", data |-> <<>>]
Dir == [kind |-> "dir", data |-> <<>>]
File(data) == [kind |-> "file", data |-> data]

\* the audio the engine makes of chunk n, a file left by an earlier run, and a
\* file whose write broke off
Audio(n) == <<n>>
StaleAudio == <<0>>
BrokenAudio == <<>>

\* the text the model makes of chunk n, and chunk n as it was
Cleaned(n) == <<"cleaned", n>>
Raw(n) == <<"raw", n>>

\* how the engine's call for one chunk can end
TtsOutcomes == {"ok", "no_audio", "error", "error_after_write"}
OllamaOutcomes == {"ok", "error"}

\* text_to_speech: the path, or 0 for None; an exception is logged
text_to_speech(d, chunk_num, outcome) ==
    CASE outcome = "ok" ->
            [disk |-> [d EXCEPT ![ChunkPath(chunk_num)] = File(Audio(chunk_num))],
             temp_path |-> chunk_num, logged |-> {}]
      [] outcome = "no_audio" ->
            [disk |-> d, temp_path |-> 0, logged |-> {}]
      [] outcome = "error" ->
            [disk |-> d, temp_path |-> 0, logged |-> {<<"chunk", chunk_num>>}]
      [] outcome = "error_after_write" ->
            [disk |-> [d EXCEPT ![ChunkPath(chunk_num)] = File(BrokenAudio)],
             temp_path |-> 0, logged |-> {<<"chunk", chunk_num>>}]

\* concatenate_audio_files: the data of the files, one after the other
RECURSIVE ReadAll(_, _)
ReadAll(d, files) ==
    IF files = <<>> THEN <<>>
    ELSE <<d[ChunkPath(Head(files))].data>> \o ReadAll(d, Tail(files))

\* a faulty variant: the first file is read for its parameters only
concatenate_without_first(d, files) == Concat(ReadAll(d, Tail(files)))

concatenate_audio_files(d, files) ==
    LET total_data == <<d[ChunkPath(files[1])].data>> \o ReadAll(d, Tail(files))
    IN  Concat(total_data)

\* for file in audio_files: file.unlink()
UnlinkAll(d, files) ==
    [p \in PipelinePaths |->
        IF \E k \in 1..Len(files) : p = ChunkPath(files[k]) THEN NoFile ELSE d[p]]

\* a faulty variant: the directory is removed with what it holds unseen
RmdirNeverRaises(d) == FALSE

\* output_dir.rmdir(): raises unless the directory is empty
RmdirRaises(d) == \E n \in 1..MaxChunks : d[ChunkPath(n)].kind # "none"

\* a faulty variant: on an exception nothing of the chunk is returned
clean_text_or_nothing(chunk_num, outcome) ==
    IF outcome = "ok"
    THEN [text |-> Cleaned(chunk_num), logged |-> {}]
    ELSE [text |-> <<"", 0>>, logged |-> {<<"chunk", chunk_num>>}]

\* clean_text_with_ollama: the model's text; on an exception, logged, the chunk
\* as it was
clean_text_with_ollama(chunk_num, outcome) ==
    IF outcome = "ok"
    THEN [text |-> Cleaned(chunk_num), logged |-> {}]
    ELSE [text |-> Raw(chunk_num), logged |-> {<<"chunk", chunk_num>>}]

\* '\n'.join(cleaned_chunks)
JoinLines(texts) == Join(<<<<"\n", 0>>>>, [k \in 1..Len(texts) |-> <<texts[k]>>])

\* the temp directory as an earlier run can have left it
InitialDisks ==
    {[p \in PipelinePaths |->
        IF p = TempDir THEN (IF has_dir THEN Dir ELSE NoFile)
        ELSE IF \E n \in stale : p = ChunkPath(n) THEN File(StaleAudio)
        ELSE NoFile] :
     has_dir \in BOOLEAN, stale \in SUBSET (1..MaxChunks)}

InitPipeline ==
    /\ pc \in {"process_file", "process_text_file"}
    /\ driver = pc
    /\ total_chunks = 0
    /\ idx = 0
    /\ calls = [n \in 1..MaxChunks |-> 0]
    /\ results = <<>>
    /\ audio_files = <<>>
    /\ cleaned_chunks = <<>>
    /\ disk \in {d \in InitialDisks :
                    /\ d[TempDir].kind = "none" => \A n \in 1..MaxChunks : d[ChunkPath(n)].kind = "none"
                    /\ pc = "process_text_file" => d[TempDir].kind = "none"}
    /\ logged = {}
    /\ ret = "running"
    /\ ChunkerIdle
    /\ FeedIdle
    /\ ServerIdle
    /\ MainIdle

\* process_file, lines 146-166: the engine is set up (outside the try), the
\* temp directory made, the input read and split
PF_Begin ==
    /\ pc = "process_file"
    /\ \/ /\ ret' = "raised"
          /\ pc' = "done"
          /\ UNCHANGED <<total_chunks, idx, disk, logged>>
       \/ /\ disk' = [disk EXCEPT ![TempDir] = Dir]
          /\ \/ /\ logged' = logged \cup {<<"run", 0>>}
                /\ ret' = "False"
                /\ pc' = "done"
                /\ UNCHANGED <<total_chunks, idx>>
             \/ \E n \in 1..MaxChunks :
                    /\ total_chunks' = n
                    /\ idx' = 1
                    /\ pc' = "pf_loop"
                    /\ UNCHANGED <<logged, ret>>
    /\ UNCHANGED <<driver, calls, results, audio_files, cleaned_chunks, chunkerVars, feedVars, serverVars, mainVars>>

\* process_file, lines 171-179: one pass of the loop over the chunks
PF_Chunk ==
    /\ pc = "pf_loop"
    /\ idx <= total_chunks
    /\ \E outcome \in TtsOutcomes :
        LET r == text_to_speech(disk, idx, outcome)
        IN  /\ calls' = [calls EXCEPT ![idx] = @ + 1]
            /\ results' = Append(results, outcome)
            /\ disk' = r.disk
            /\ logged' = logged \cup r.logged
            /\ audio_files' = IF r.temp_path # 0
                              THEN Append(audio_files, r.temp_path)
                              ELSE audio_files
    /\ idx' = idx + 1
    /\ UNCHANGED <<pc, driver, total_chunks, cleaned_chunks, ret, chunkerVars, feedVars, serverVars, mainVars>>

\* process_file, lines 181-185: the audio files are combined into the output
PF_Combine ==
    /\ pc = "pf_loop"
    /\ idx > total_chunks
    /\ \/ /\ audio_files # <<>>
          /\ disk' = [disk EXCEPT ![OutputWav] =
                        File(concatenate_audio_files(disk, audio_files))]
          /\ pc' = "pf_cleanup"
          /\ UNCHANGED <<logged, ret>>
       \/ /\ audio_files # <<>>
          /\ logged' = logged \cup {<<"run", 0>>}
          /\ ret' = "False"
          /\ pc' = "done"
          /\ UNCHANGED disk
       \/ /\ audio_files = <<>>
          /\ pc' = "pf_cleanup"
          /\ UNCHANGED <<disk, logged, ret>>
    /\ UNCHANGED <<driver, total_chunks, idx, calls, results, audio_files,
                   cleaned_chunks, chunkerVars, feedVars, serverVars, mainVars>>

\* process_file, lines 187-196: the temp files and the directory are removed
PF_Cleanup ==
    /\ pc = "pf_cleanup"
    /\ LET d == UnlinkAll(disk, audio_files)
       IN  IF RmdirRaises(d)
           THEN /\ disk' = d
                /\ logged' = logged \cup {<<"run", 0>>}
                /\ ret' = "False"
           ELSE /\ disk' = [d EXCEPT ![TempDir] = NoFile]
                /\ ret' = "True"
                /\ UNCHANGED logged
    /\ pc' = "done"
    /\ UNCHANGED <<driver, total_chunks, idx, calls, results, audio_files,
                   cleaned_chunks, chunkerVars, feedVars, serverVars, mainVars>>

\* process_text_file, lines 110-119: the input is read and split
PT_Begin ==
    /\ pc = "process_text_file"
    /\ \/ /\ ret' = "raised"
          /\ pc' = "done"
          /\ UNCHANGED <<total_chunks, idx>>
       \/ \E n \in 1..MaxChunks :
            /\ total_chunks' = n
            /\ idx' = 1
            /\ pc' = "pt_loop"
            /\ UNCHANGED ret
    /\ UNCHANGED <<driver, calls, results, audio_files, cleaned_chunks, disk,
                   logged, chunkerVars, feedVars, serverVars, mainVars>>

\* process_text_file, lines 121-128: one pass of the loop over the chunks
PT_Chunk ==
    /\ pc = "pt_loop"
    /\ idx <= total_chunks
    /\ \E outcome \in OllamaOutcomes :
        LET r == clean_text_with_ollama(idx, outcome)
            cleaned == Append(cleaned_chunks, r.text)
        IN  /\ calls' = [calls EXCEPT ![idx] = @ + 1]
            /\ results' = Append(results, outcome)
            /\ logged' = logged \cup r.logged
            /\ cleaned_chunks' = cleaned
            /\ disk' = [disk EXCEPT ![PartialTxt] = File(JoinLines(cleaned))]
    /\ idx' = idx + 1
    /\ UNCHANGED <<pc, driver, total_chunks, audio_files, ret, chunkerVars, feedVars, serverVars, mainVars>>

\* process_text_file, lines 130-136: the output is written (the write can
\* raise), the partial file removed
PT_Finish ==
    /\ pc = "pt_loop"
    /\ idx > total_chunks
    /\ \/ /\ ret' = "raised"
          /\ UNCHANGED disk
       \/ /\ disk' = [disk EXCEPT ![OutputTxt] = File(JoinLines(cleaned_chunks)),
                                  ![PartialTxt] = NoFile]
          /\ ret' = "returned"
    /\ pc' = "done"
    /\ UNCHANGED <<driver, total_chunks, idx, calls, results, audio_files,
                   cleaned_chunks, logged, chunkerVars, feedVars, serverVars, mainVars>>

NextPipeline ==
    \/ PF_Begin \/ PF_Chunk \/ PF_Combine \/ PF_Cleanup
    \/ PT_Begin \/ PT_Chunk \/ PT_Finish

SpecPipeline == InitPipeline /\ [][NextPipeline]_vars

-----------------------------------------------------------------------------
(* podcast_feed.py: create_podcast_feed.  A file name is a sequence of     *)
(* pieces; times are in ticks, finer than the seconds the feed prints.     *)

PodcastXml == <<"podcast", ".xml">>

\* the names a directory can hold, in the order the directory lists them
ListingOrder ==
    << <<"A", "_audiobook", ".mp3">>,
       <<"A", "_audiobook", ".wav">>,
       <<"B", "_audiobook", ".mp3">>,
       <<"B", ".mp3">>,
       <<"_audiobook", ".mp3">>,
       PodcastXml >>

FeedNames == {ListingOrder[k] : k \in 1..Len(ListingOrder)}

\* the sizes of the files, in bytes
FileSizes == {0, 1100000}

\* no podcast.xml written yet
NoFeed == [title |-> "", description |-> "", lastBuildDate |-> 0, items |-> <<>>]

Absent == [exists |-> FALSE, mtime |-> 0, size |-> 0]
Stat(mtime, size) == [exists |-> TRUE, mtime |-> mtime, size |-> size]

\* a faulty variant: every file of the directory is taken for an audiobook
MatchesAnything(name) == TRUE

\* the pattern "*_audiobook.mp3"
MatchesGlob(name) == EndsWith(name, <<"_audiobook", ".mp3">>)

\* for file in Path(audiobooks_dir).glob("*_audiobook.mp3")
Glob(d) == SelectSeq(ListingOrder, LAMBDA name : d[name].exists /\ MatchesGlob(name))

\* a faulty variant: oldest first (reverse=True forgotten)
InsertOldestFirst(sorted, name, d) ==
    LET k == Cardinality({j \in 1..Len(sorted) : d[sorted[j]].mtime <= d[name].mtime})
    IN  SubSeq(sorted, 1, k) \o <<name>> \o SubSeq(sorted, k + 1, Len(sorted))

\* one step of sort(key=getmtime, reverse=True): the sort is stable, a file
\* goes behind the files that are as new or newer
InsertNewestFirst(sorted, name, d) ==
    LET k == Cardinality({j \in 1..Len(sorted) : d[sorted[j]].mtime >= d[name].mtime})
    IN  SubSeq(sorted, 1, k) \o <<name>> \o SubSeq(sorted, k + 1, Len(sorted))

RECURSIVE SortNewestFirst(_, _, _)
SortNewestFirst(files, sorted, d) ==
    IF files = <<>> THEN sorted
    ELSE SortNewestFirst(Tail(files), InsertNewestFirst(sorted, Head(files), d), d)

\* strftime("%a, %d %b %Y %H:%M:%S +0000"): the time to the second
FormatTime(t) == t \div TicksPerSecond

\* file.stem.replace("_audiobook", "")
Title(name) == Replace(SubSeq(name, 1, Len(name) - 1), <<"_audiobook">>, <<>>)

\* f"{duration_minutes:02d}:{duration_seconds:02d}:00"
Duration(file_size) ==
    <<file_size \div (1024 * 1024), (file_size % (1024 * 1024)) \div (17 * 1024)>>

\* one <item>
Item(name, d) ==
    [title |-> Title(name),
     pubDate |-> FormatTime(d[name].mtime),
     url |-> name,
     length |-> d[name].size,
     guid |-> <<name, d[name].mtime>>,
     duration |-> Duration(d[name].size)]

\* create_podcast_feed: the document built of directory d at time now
create_podcast_feed(d, now) ==
    LET audiobook_files == SortNewestFirst(Glob(d), <<>>, d)
    IN  [title |-> "Local Audiobooks",
         description |-> "Locally generated audiobooks",
         lastBuildDate |-> FormatTime(now),
         items |-> [k \in 1..Len(audiobook_files) |-> Item(audiobook_files[k], d)]]

\* the directories a build can find: at most MaxFiles files, no podcast.xml yet
FeedDirs ==
    {d \in [FeedNames -> {Absent} \cup {Stat(m, sz) : m \in 0..MaxMtime, sz \in FileSizes}] :
        /\ ~d[PodcastXml].exists
        /\ Cardinality({name \in FeedNames : d[name].exists}) <= MaxFiles}

InitFeed ==
    /\ pc = "feed"
    /\ dir \in FeedDirs
    /\ clock = 0
    /\ feed = NoFeed
    /\ prev_feed = NoFeed
    /\ ChunkerIdle
    /\ PipelineIdle
    /\ ServerIdle
    /\ MainIdle

\* time passes
Tick ==
    /\ pc = "feed"
    /\ clock < MaxClock
    /\ clock' = clock + 1
    /\ UNCHANGED <<pc, dir, feed, prev_feed, chunkerVars, pipelineVars, serverVars, mainVars>>

\* one call of create_podcast_feed: the document is written to podcast.xml
\* (its size: one unit per element written)
CreatePodcastFeed ==
    /\ pc = "feed"
    /\ LET doc == create_podcast_feed(dir, clock)
       IN  /\ feed' = doc
           /\ dir' = [dir EXCEPT ![PodcastXml] = Stat(clock, 1 + Len(doc.items))]
    /\ prev_feed' = feed
    /\ UNCHANGED <<pc, clock, chunkerVars, pipelineVars, serverVars, mainVars>>

NextFeed == Tick \/ CreatePodcastFeed

SpecFeed == InitFeed /\ [][NextFeed]_vars

-----------------------------------------------------------------------------
(* server.py: PodcastHandler.do_GET.  A request path is a sequence of      *)
(* pieces; a place in the file system is the sequence of names from the    *)
(* root to it, each name a sequence of pieces.                             *)

PathPieces == {"/", "audio", "feed", "feed.xml", "x.mp3", "sub", ".."}

\* the request paths: they start with "/"
RequestPaths == {p \in SeqsUpTo(PathPieces, MaxPathLen) : p # <<>> /\ p[1] = "/"}

\* the server's working directory, and podcast.xml, which server.py line 11
\* writes there before the server starts
Cwd == << <<"srv">> >>
PodcastXmlPlace == << <<"srv">>, <<"podcast.xml">> >>

\* what else can exist: files in the working directory, in a directory of it,
\* and outside it
SubDir == << <<"srv">>, <<"sub">> >>
OtherFiles ==
    { << <<"srv">>, <<"x.mp3">> >>,
      << <<"srv">>, <<"sub">>, <<"x.mp3">> >>,
      << <<"x.mp3">> >> }

NoBody == <<>>

\* where a path leads that names nothing
NoPlace == << <<"?">> >>

\* "file", "dir" or "none": what is at a place
KindOf(fs, place) ==
    IF place \in {<<>>, Cwd} \/ (place = SubDir /\ SubDir \in fs) THEN "dir"
    ELSE IF place = PodcastXmlPlace \/ (place \in OtherFiles /\ place \in fs) THEN "file"
    ELSE "none"

\* the place a path names, walked one component at a time; NoPlace when a
\* component is looked up in something that is no directory
RECURSIVE Walk(_, _, _)
Walk(fs, place, components) ==
    IF components = <<>> THEN place
    ELSE IF KindOf(fs, place) # "dir" THEN NoPlace
    ELSE LET c == Head(components)
         IN  IF c = <<>> THEN Walk(fs, place, Tail(components))
             ELSE IF c = <<"..">>
                  THEN Walk(fs, SubSeq(place, 1, Len(place) - 1), Tail(components))
             ELSE Walk(fs, Append(place, c), Tail(components))

\* the place the operating system finds for a path of the process; the empty
\* path names nothing
PlaceOf(fs, p) ==
    IF p = <<>> THEN NoPlace
    ELSE Walk(fs, IF p[1] = "/" THEN <<>> ELSE Cwd, Split(p, <<"/">>))

\* a faulty variant: "/feed.xml" is forgotten
IsFeedOrRoot(p) == p \in {<<"/">>, <<"/", "feed">>}

\* self.path == "/" or self.path == "/feed" or self.path == "/feed.xml"
IsFeedPath(p) == p \in {<<"/">>, <<"/", "feed">>, <<"/", "feed.xml">>}

\* what do_GET sends for self.path = p
do_GET(fs, p, client_reads) ==
    IF IsFeedPath(p)
    THEN [via |-> "feed", status |-> 200, ctype |-> "application/xml",
          audio_file |-> <<>>,
          body |-> IF client_reads THEN PodcastXmlPlace ELSE NoBody]
    ELSE IF StartsWith(p, <<"/", "audio", "/">>)
    THEN LET audio_file == Replace(p, <<"/", "audio", "/">>, <<>>)
             place == PlaceOf(fs, audio_file)
         IN  IF KindOf(fs, place) # "none"
             THEN [via |-> "audio", status |-> 200, ctype |-> "audio/mpeg",
                   audio_file |-> audio_file,
                   body |-> IF KindOf(fs, place) = "file" /\ client_reads
                            THEN place ELSE NoBody]
             ELSE [via |-> "audio", status |-> 404, ctype |-> "text/html",
                   audio_file |-> audio_file, body |-> NoBody]
    ELSE [via |-> "SimpleHTTPRequestHandler", status |-> 0, ctype |-> "",
          audio_file |-> <<>>, body |-> NoBody]

InitServer ==
    /\ pc = "serve_forever"
    /\ srv_fs \in {fs \in SUBSET (OtherFiles \cup {SubDir}) :
                    << <<"srv">>, <<"sub">>, <<"x.mp3">> >> \in fs => SubDir \in fs}
    /\ request = <<>>
    /\ connected = FALSE
    /\ response = <<>>
    /\ ChunkerIdle
    /\ PipelineIdle
    /\ FeedIdle
    /\ MainIdle

\* one request is handled
HandleGET ==
    /\ pc = "serve_forever"
    /\ \E p \in RequestPaths, client_reads \in BOOLEAN :
        /\ request' = p
        /\ connected' = client_reads
        /\ response' = do_GET(srv_fs, p, client_reads)
    /\ pc' = "handled"
    /\ UNCHANGED <<srv_fs, chunkerVars, pipelineVars, feedVars, mainVars>>

\* the server waits for the next request
NextRequest ==
    /\ pc = "handled"
    /\ pc' = "serve_forever"
    /\ request' = <<>>
    /\ connected' = FALSE
    /\ response' = <<>>
    /\ UNCHANGED <<srv_fs, chunkerVars, pipelineVars, feedVars, mainVars>>

NextServer == HandleGET \/ NextRequest

SpecServer == InitServer /\ [][NextServer]_vars

-----------------------------------------------------------------------------
(* audiobook.py: the module's statements from the first def of process_file *)
(* to the call in the entry block.  A def statement binds the name to the    *)
(* function it defines; the call binds its arguments to the parameters of    *)
(* the function the name is bound to then.                                   *)

\* the paths the user types, and those of them that are files
TypedPaths == {"book.txt", "notes.txt", "missing.txt"}
ExistingFiles == {"book.txt", "notes.txt"}

\* four of the 28 voices of choose_voice, two of each language code
voices == <<"af_heart", "am_michael", "bf_emma", "bm_george">>

\* what the user types at the voice prompt
VoiceChoices == {"0", "1", "2", "3", "4", "5", "af_heart", "bm_george", "zz"}

\* what the user types at a y/n prompt
YesNoChoices == {"y", "n", "Y", "N", "x"}

\* str.lower on the answers
Lower(c) == CASE c = "Y" -> "y" [] c = "N" -> "n" [] OTHER -> c

\* choice.isdigit() and int(choice)
IsDigit(choice) == choice \in {"0", "1", "2", "3", "4", "5"}
IntOf(choice) ==
    CASE choice = "0" -> 0 [] choice = "1" -> 1 [] choice = "2" -> 2
      [] choice = "3" -> 3 [] choice = "4" -> 4 [] choice = "5" -> 5

\* choose_voice on one answer: the voice, or "" when the prompt is repeated
choose_voice(choice) ==
    IF IsDigit(choice) /\ 1 <= IntOf(choice) /\ IntOf(choice) <= Len(voices)
    THEN voices[IntOf(choice)]
    ELSE IF \E k \in 1..Len(voices) : voices[k] = choice THEN choice
    ELSE ""

\* the parameters of the two definitions of process_file, by the line of the def
Params(def) ==
    CASE def = 32 -> <<"input_file", "voice", "use_gpu">>
      [] def = 143 -> <<"input_file", "voice">>
      [] OTHER -> <<>>

\* the call process_file(*args) with the name bound to the def at line def:
\* where the script is afterwards and where the model was put
process_file(def, args, cuda) ==
    IF def = 0 THEN [pc |-> "NameError", device |-> ""]
    ELSE IF Len(args) > Len(Params(def)) THEN [pc |-> "TypeError", device |-> ""]
    ELSE IF def = 32
    THEN \* lines 35-40: the body ends after the pipeline is made
         [pc |-> "exit",
          device |-> IF Len(args) >= 3 /\ args[3] /\ cuda THEN "cuda" ELSE "cpu"]
    ELSE \* lines 146-148, and on to the loop over the chunks
         [pc |-> "process_file", device |-> IF cuda THEN "cuda" ELSE "cpu"]

InitMain ==
    /\ pc = "def_process_file_32"
    /\ process_file_def = 0
    /\ cuda_available \in BOOLEAN
    /\ input_file = ""
    /\ voice = ""
    /\ use_gpu = FALSE
    /\ console = ""
    /\ device = ""
    /\ ChunkerIdle
    /\ PipelineIdle
    /\ FeedIdle
    /\ ServerIdle

\* line 32: def process_file(input_file, voice, use_gpu=False)
DefProcessFile32 ==
    /\ pc = "def_process_file_32"
    /\ process_file_def' = 32
    /\ pc' = "def_process_file_143"
    /\ UNCHANGED <<cuda_available, input_file, voice, use_gpu, console, device,
                   chunkerVars, pipelineVars, feedVars, serverVars>>

\* line 143: def process_file(input_file, voice)
DefProcessFile143 ==
    /\ pc = "def_process_file_143"
    /\ process_file_def' = 143
    /\ pc' = "get_valid_input_file"
    /\ UNCHANGED <<cuda_available, input_file, voice, use_gpu, console, device,
                   chunkerVars, pipelineVars, feedVars, serverVars>>

\* get_valid_input_file: one answer to the prompt
GetValidInputFile ==
    /\ pc = "get_valid_input_file"
    /\ \E file_path \in TypedPaths :
        IF file_path \in ExistingFiles
        THEN /\ input_file' = file_path
             /\ console' = "Output will be saved as"
             /\ pc' = "choose_voice"
        ELSE /\ console' = "does not exist"
             /\ UNCHANGED <<pc, input_file>>
    /\ UNCHANGED <<process_file_def, cuda_available, voice, use_gpu, device,
                   chunkerVars, pipelineVars, feedVars, serverVars>>

\* choose_voice: one answer to the prompt
ChooseVoice ==
    /\ pc = "choose_voice"
    /\ \E choice \in VoiceChoices :
        IF choose_voice(choice) # ""
        THEN /\ voice' = choose_voice(choice)
             /\ console' = "Selected voice"
             /\ pc' = "choose_device"
        ELSE /\ console' = "Invalid choice"
             /\ UNCHANGED <<pc, voice>>
    /\ UNCHANGED <<process_file_def, cuda_available, input_file, use_gpu, device,
                   chunkerVars, pipelineVars, feedVars, serverVars>>

\* choose_device: no prompt without a GPU, else one answer to the prompt
ChooseDevice ==
    /\ pc = "choose_device"
    /\ IF ~cuda_available
       THEN /\ use_gpu' = FALSE
            /\ console' = "Using CPU for processing"
            /\ pc' = "confirm"
       ELSE \E choice \in YesNoChoices :
            IF Lower(choice) = "y"
            THEN /\ use_gpu' = TRUE
                 /\ console' = "Using GPU for processing"
                 /\ pc' = "confirm"
            ELSE IF Lower(choice) = "n"
            THEN /\ use_gpu' = FALSE
                 /\ console' = "Using CPU for processing"
                 /\ pc' = "confirm"
            ELSE /\ console' = "Please enter 'y' or 'n'"
                 /\ UNCHANGED <<pc, use_gpu>>
    /\ UNCHANGED <<process_file_def, cuda_available, input_file, voice, device,
                   chunkerVars, pipelineVars, feedVars, serverVars>>

\* lines 215-217: "Proceed? (y/n): "
Confirm ==
    /\ pc = "confirm"
    /\ \E answer \in YesNoChoices :
        IF Lower(answer) # "y"
        THEN /\ console' = "Operation cancelled."
             /\ pc' = "exit"
        ELSE /\ pc' = "call_process_file"
             /\ UNCHANGED console
    /\ UNCHANGED <<process_file_def, cuda_available, input_file, voice, use_gpu,
                   device, chunkerVars, pipelineVars, feedVars, serverVars>>

\* line 219: process_file(input_file, voice, use_gpu)
CallProcessFile ==
    /\ pc = "call_process_file"
    /\ LET after == process_file(process_file_def, <<input_file, voice, use_gpu>>,
                                 cuda_available)
       IN  /\ pc' = after.pc
           /\ device' = after.device
           /\ console' = IF after.pc \in {"TypeError", "NameError"}
                         THEN "Traceback (most recent call last)" ELSE console
    /\ UNCHANGED <<process_file_def, cuda_available, input_file, voice, use_gpu,
                   chunkerVars, pipelineVars, feedVars, serverVars>>

NextMain ==
    \/ DefProcessFile32
    \/ DefProcessFile143
    \/ GetValidInputFile
    \/ ChooseVoice
    \/ ChooseDevice
    \/ Confirm
    \/ CallProcessFile

SpecMain == InitMain /\ [][NextMain]_vars

-----------------------------------------------------------------------------
(* The chunkers as state machines: the inputs are drawn in Init, one action *)
(* is one call.                                                             *)

\* the input texts of split_into_chunks: up to MaxPieces pieces in a row
CleanupTexts == {Concat(ps) : ps \in SeqsUpTo(CleanupPieces, MaxPieces)}

\* a longer text split_text is tried on as well: "A. B. C."
ExampleText == <<"A", ".", " ", "B", ".", " ", "C", ".">>

InitSplitText ==
    /\ pc = "split_text"
    /\ text \in SeqsUpTo(TextAlphabet, MaxTextLen) \cup {ExampleText}
    /\ max_size \in 1..MaxLength
    /\ min_size = 0
    /\ chunks = <<>>
    /\ PipelineIdle
    /\ FeedIdle
    /\ ServerIdle
    /\ MainIdle

CallSplitText ==
    /\ pc = "split_text"
    /\ chunks' = split_text(text, max_size)
    /\ pc' = "split_text_done"
    /\ UNCHANGED <<text, max_size, min_size, pipelineVars, feedVars, serverVars, mainVars>>

SpecSplitText == InitSplitText /\ [][CallSplitText]_vars

InitSplitChunks ==
    /\ pc = "split_into_chunks"
    /\ text \in CleanupTexts
    /\ max_size \in 1..MaxChunkSize
    /\ min_size \in 0..max_size
    /\ chunks = <<>>
    /\ PipelineIdle
    /\ FeedIdle
    /\ ServerIdle
    /\ MainIdle

CallSplitIntoChunks ==
    /\ pc = "split_into_chunks"
    /\ chunks' = split_into_chunks(text, max_size, min_size)
    /\ pc' = "split_into_chunks_done"
    /\ UNCHANGED <<text, max_size, min_size, pipelineVars, feedVars, serverVars, mainVars>>

SpecSplitChunks == InitSplitChunks /\ [][CallSplitIntoChunks]_vars

-----------------------------------------------------------------------------
(* What the chunker claims speak about. *)

IsBlank(c) == c \in {" ", "\n"}

\* the characters of s that are not whitespace, in order
NonBlank(s) == SelectSeq(s, LAMBDA c : ~IsBlank(c))

\* the words of s: its maximal runs of non-whitespace characters, in order
RECURSIVE WordsFrom(_, _, _)
WordsFrom(s, i, word) ==
    IF i > Len(s) THEN (IF word = <<>> THEN <<>> ELSE <<word>>)
    ELSE IF IsBlank(s[i])
         THEN (IF word = <<>> THEN <<>> ELSE <<word>>) \o WordsFrom(s, i + 1, <<>>)
         ELSE WordsFrom(s, i + 1, Append(word, s[i]))

Words(s) == WordsFrom(s, 1, <<>>)

HasContent(s) == \E i \in 1..Len(s) : ~IsBlank(s[i])

\* c holds two or more paragraphs or sentences: a paragraph break with text on
\* both sides, or a sentence end (a separator, then a space) with text after it
HoldsSeveralUnits(c) ==
    \/ \E j \in 1..(Len(c) - 1) :
            /\ c[j] = "\n" /\ c[j + 1] = "\n"
            /\ HasContent(SubSeq(c, 1, j - 1))
            /\ HasContent(SubSeq(c, j + 2, Len(c)))
    \/ \E j \in 1..(Len(c) - 1) :
            /\ c[j] \in {".", "!", "?", ";"} /\ c[j + 1] = " "
            /\ HasContent(SubSeq(c, j + 2, Len(c)))

ChunkerDone == pc \in {"split_text_done", "split_into_chunks_done"}

\* C1: every chunk a chunker returns is at most the maximum size long, unless
\* it is one single indivisible unit (one sentence or one word); no chunk made
\* of two or more paragraphs or sentences exceeds the maximum.
C1_ChunkWithinMax ==
    ChunkerDone =>
        \A i \in 1..Len(chunks) :
            Len(chunks[i]) > max_size => ~HoldsSeveralUnits(chunks[i])

\* C2: the chunks of split_text, concatenated in the order returned, hold the
\* input's words in their original sequence: none lost, duplicated, altered or
\* merged with a neighbour.
C2_WordsPreserved ==
    pc = "split_text_done" => Words(Concat(chunks)) = Words(text)

\* C3: split_into_chunks returns its chunks in document order: read chunk by
\* chunk, the text (whitespace aside) comes in the order of the input.
C3_DocumentOrder ==
    pc = "split_into_chunks_done" => NonBlank(Concat(chunks)) = NonBlank(text)

\* C4: no chunker returns an empty chunk, whatever the input.
C4_NoEmptyChunk ==
    ChunkerDone => \A i \in 1..Len(chunks) : Len(chunks[i]) >= 1

\* Facts beside the claims (they hold under SpecSplitText, SpecSplitChunks).

\* both chunkers return at least one chunk
ChunkListNeverEmpty == ChunkerDone => Len(chunks) >= 1

\* split_into_chunks keeps every character that is not whitespace: where
\* C3_DocumentOrder fails, it is the order that differs
SplitChunksKeepsCharacters ==
    pc = "split_into_chunks_done" =>
        \A c \in {"A", "B", "."} :
            Cardinality({i \in 1..Len(Concat(chunks)) : Concat(chunks)[i] = c})
                = Cardinality({i \in 1..Len(text) : text[i] = c})

\* split_text keeps the words when no earlier sentence has the text of the
\* last one
SplitTextKeepsWordsWithoutRepeat ==
    LET sentences == Split(Replace(text, <<"\n">>, <<" ">>), <<".", " ">>)
    IN  (pc = "split_text_done"
            /\ \A k \in 1..(Len(sentences) - 1) : sentences[k] # sentences[Len(sentences)])
        => Words(Concat(chunks)) = Words(text)

-----------------------------------------------------------------------------
(* What the pipeline claims speak about. *)

Failed(k) == results[k] \in {"error", "error_after_write"}

\* every chunk of the run has been processed, and successfully
AllChunksOk ==
    /\ total_chunks >= 1
    /\ Len(results) = total_chunks
    /\ \A k \in 1..Len(results) : results[k] = "ok"

\* the partial results a joined text holds, in order
PiecesOf(data) == SelectSeq(data, LAMBDA x : x[1] # "\n")

\* the numbers of the chunks processed so far whose audio was made, in order
RECURSIVE OkChunksFrom(_)
OkChunksFrom(k) ==
    IF k > Len(results) THEN <<>>
    ELSE (IF results[k] = "ok" THEN <<k>> ELSE <<>>) \o OkChunksFrom(k + 1)

PastTheLoop ==
    /\ total_chunks >= 1
    /\ \/ pc \in {"pf_cleanup", "done"}
       \/ pc \in {"pf_loop", "pt_loop"} /\ idx > total_chunks

\* no chunk's external call is made twice
NoRetry == \A n \in DOMAIN calls : calls[n] <= 1

\* a failure does not end the loop: past it, every chunk has had its call
EveryChunkProcessed ==
    PastTheLoop => \A n \in 1..total_chunks : calls[n] = 1

\* every failure is logged
FailuresLogged ==
    \A k \in 1..Len(results) : Failed(k) => <<"chunk", k>> \in logged

\* the audiobook holds the audio of the chunks that succeeded and nothing of
\* the others
FailedOmittedFromAudio ==
    (driver = "process_file" /\ disk[OutputWav].kind = "file")
        => disk[OutputWav].data = OkChunksFrom(1)

\* the cleaned text holds nothing of a chunk whose call failed
FailedOmittedFromText ==
    (driver = "process_text_file" /\ disk[OutputTxt].kind = "file")
        => \A k \in 1..Len(results) :
            Failed(k) => \A j \in 1..Len(disk[OutputTxt].data) :
                            disk[OutputTxt].data[j][2] # k

\* the cleaned text holds, at a failed chunk's place, the chunk as it was
FailedKeptRawInText ==
    (driver = "process_text_file" /\ disk[OutputTxt].kind = "file")
        => /\ Len(PiecesOf(disk[OutputTxt].data)) = total_chunks
           /\ \A k \in 1..total_chunks :
                PiecesOf(disk[OutputTxt].data)[k] =
                    IF Failed(k) THEN Raw(k) ELSE Cleaned(k)

\* C5 as claimed: a chunk's failure is caught and logged, the chunk's
\* contribution is left out of the final artifact (audio and text alike), no
\* call is retried and every later chunk is still processed.
C5_FailedChunkOmitted ==
    /\ NoRetry
    /\ EveryChunkProcessed
    /\ FailuresLogged
    /\ FailedOmittedFromAudio
    /\ FailedOmittedFromText

\* C5 as amended: as claimed for process_file; process_text_file puts the
\* chunk's original, uncleaned text in the place of the failed chunk.
C5_FailedChunkSkippedOrKeptRaw ==
    /\ NoRetry
    /\ EveryChunkProcessed
    /\ FailuresLogged
    /\ FailedOmittedFromAudio
    /\ FailedKeptRawInText

\* a run of process_text_file that ended after chunk 1 failed and chunk 2 did not
C5_Witness ==
    /\ driver = "process_text_file"
    /\ ret = "returned"
    /\ Len(results) >= 2
    /\ Failed(1)
    /\ results[2] = "ok"

\* C6: when all N chunks were processed successfully, the final artifact holds
\* the N partial results, each once, in the order 1..N.
C6_AllResultsInOrder ==
    /\ (driver = "process_file" /\ AllChunksOk /\ ret = "True")
            => disk[OutputWav].kind = "file"
    /\ (driver = "process_file" /\ AllChunksOk /\ disk[OutputWav].kind = "file")
            => disk[OutputWav].data = [n \in 1..total_chunks |-> n]
    /\ (driver = "process_text_file" /\ AllChunksOk /\ ret = "returned")
            => /\ disk[OutputTxt].kind = "file"
               /\ PiecesOf(disk[OutputTxt].data) = [n \in 1..total_chunks |-> Cleaned(n)]

\* a run of process_file that ended well with two or more chunks, all successful
C6_Witness ==
    /\ driver = "process_file"
    /\ ret = "True"
    /\ AllChunksOk
    /\ total_chunks >= 2

\* C7: when a run ends successfully, no intermediate artifact is left: no
\* chunk file, no temp directory, no .partial file.
C7_NoIntermediateLeft ==
    /\ ret = "True" =>
            /\ disk[TempDir].kind = "none"
            /\ \A n \in 1..MaxChunks : disk[ChunkPath(n)].kind = "none"
    /\ ret = "returned" => disk[PartialTxt].kind = "none"

\* a run of process_file that ended well after it had written chunk files
C7_Witness ==
    /\ ret = "True"
    /\ Len(audio_files) >= 2

-----------------------------------------------------------------------------
(* What the feed claims speak about. *)

\* the files of the directory named *_audiobook.mp3
MatchingFiles ==
    {name \in FeedNames :
        /\ dir[name].exists
        /\ Len(name) >= 2
        /\ name[Len(name) - 1] = "_audiobook"
        /\ name[Len(name)] = ".mp3"}

\* C8: the feed holds exactly one item per file named *_audiobook.mp3 and no
\* other item, the items newest first by modification time; with no such file
\* it holds no item.
C8_OneItemPerAudiobookNewestFirst ==
    feed # NoFeed =>
        /\ Len(feed.items) = Cardinality(MatchingFiles)
        /\ {feed.items[k].url : k \in 1..Len(feed.items)} = MatchingFiles
        /\ \A i, j \in 1..Len(feed.items) :
                i < j => dir[feed.items[i].url].mtime >= dir[feed.items[j].url].mtime

\* a feed of two items of different times, built beside a file that is no
\* audiobook
C8_Witness ==
    /\ feed # NoFeed
    /\ Len(feed.items) = 2
    /\ dir[feed.items[1].url].mtime > dir[feed.items[2].url].mtime
    /\ \E name \in FeedNames \ MatchingFiles : name # PodcastXml /\ dir[name].exists

\* the document with its build date blanked
WithoutBuildDate(doc) == [doc EXCEPT !.lastBuildDate = 0]

\* C9 as claimed: a second build of the same directory, at any later moment,
\* writes the same document as the first.
C9_RebuildSameDocument ==
    prev_feed # NoFeed => feed = prev_feed

\* C9 as amended: the second build writes the same document but for
\* lastBuildDate, which is the second of the build.
C9_RebuildSameButBuildDate ==
    /\ prev_feed # NoFeed => WithoutBuildDate(feed) = WithoutBuildDate(prev_feed)
    /\ feed # NoFeed => feed.lastBuildDate = dir[PodcastXml].mtime \div TicksPerSecond

\* two builds of a directory with audiobooks, in different seconds
C9_Witness ==
    /\ prev_feed # NoFeed
    /\ feed.lastBuildDate # prev_feed.lastBuildDate
    /\ Len(feed.items) >= 2

-----------------------------------------------------------------------------
(* The worked example of split_text. *)

\* C11: split_text("A. B. C.", max_length=3) returns the three chunks "A. ",
\* "B. ", "C.", in that order, and nothing else.
C11_ExampleChunks ==
    (pc = "split_text_done" /\ text = ExampleText /\ max_size = 3) =>
        chunks = << <<"A", ".", " ">>, <<"B", ".", " ">>, <<"C", ".">> >>

\* split_text was called on "A. B. C." with max_length 3 and returned
C11_Witness ==
    /\ pc = "split_text_done"
    /\ text = ExampleText
    /\ max_size = 3
    /\ Len(chunks) = 3

-----------------------------------------------------------------------------
(* What the entry-block claim speaks about. *)

\* C12: once the user has given a valid input file, a voice, a device answer
\* and the confirmation "y", the call of the entry block enters process_file
\* without raising, and process_file runs with the selected voice on the
\* device the user chose (the GPU only after the answer "y").
C12_ProcessFileEntered ==
    /\ pc \notin {"TypeError", "NameError"}
    /\ pc = "process_file" => device = (IF use_gpu THEN "cuda" ELSE "cpu")

-----------------------------------------------------------------------------
(* What the server claim speaks about. *)

\* the request path begins with "/audio/"
BeginsWithAudio(p) == Len(p) >= 3 /\ p[1] = "/" /\ p[2] = "audio" /\ p[3] = "/"

\* the name after the leading "/audio/"
NameAfterAudio(p) == SubSeq(p, 4, Len(p))

InsideCwd(place) == Len(place) > Len(Cwd) /\ SubSeq(place, 1, Len(Cwd)) = Cwd

\* C13: for a request path that begins with "/audio/", the only file the
\* handler sends is the one named by what follows that leading "/audio/",
\* looked up in the server's working directory; no file outside the working
\* directory is ever sent.
C13_ServesOnlyInsideCwd ==
    (pc = "handled" /\ BeginsWithAudio(request) /\ response.body # NoBody) =>
        /\ InsideCwd(response.body)
        /\ response.body = Walk(srv_fs, Cwd, Split(NameAfterAudio(request), <<"/">>))

\* A fact beside the claim (it holds under SpecServer): the handler keeps to
\* the working directory for the names that do not begin with "/", hold no
\* ".." and no further "/audio/".
ServesInsideCwdForPlainNames ==
    (pc = "handled" /\ BeginsWithAudio(request) /\ response.body # NoBody
        /\ Find(NameAfterAudio(request), <<"/", "audio", "/">>) = 0
        /\ NameAfterAudio(request)[1] # "/"
        /\ \A i \in 1..Len(request) : request[i] # "..") =>
        /\ InsideCwd(response.body)
        /\ response.body = Walk(srv_fs, Cwd, Split(NameAfterAudio(request), <<"/">>))

====
